---- MODULE Spec2Model ----
(***************************************************************************)
(* dnsgate (src/dnsgate/dnsgate.py): the `generate` command and the pure   *)
(* helpers it calls, as a state machine.                                   *)
(*                                                                         *)
(* A domain is a Python bytes object: here a sequence of byte values, so   *)
(* that split(b'.'), reverse() and b'.'.join() are computed and not        *)
(* assumed.  A domain set is a set of such sequences.                      *)
(***************************************************************************)
EXTENDS Integers, Sequences, FiniteSets, TLC

(***************************************************************************)
(* Bytes                                                                   *)
(***************************************************************************)
\* b'.'
Dot == 46

\* The names of the model, written as their bytes (a=97 b=98 c=99 d=100
\* e=101 l=108; 255 is a byte that is not decodable as UTF-8).  'c' plays a
\* public suffix (such as com), 'e.c' a registrable domain, 'l' and 'c.e'
\* names with no public suffix (such as localhost).
D_empty == << >>
D_c     == <<99>>
D_ec    == <<101, 46, 99>>
D_aec   == <<97, 46, 101, 46, 99>>
D_bec   == <<98, 46, 101, 46, 99>>
D_adc   == <<97, 100, 46, 99>>
D_ce    == <<99, 46, 101>>
D_l     == <<108>>
D_ldot  == <<108, 46>>
D_dotc  == <<46, 99>>
D_dot   == <<46>>
D_bad   == <<255>>

(***************************************************************************)
(* bytes.split(b'.'), b'.'.join(list), list.reverse()                      *)
(***************************************************************************)
RECURSIVE FirstDot(_, _)
\* the index of the first b'.' of s at or after i, or 0
FirstDot(s, i) ==
    IF i > Len(s) THEN 0
    ELSE IF s[i] = Dot THEN i
    ELSE FirstDot(s, i + 1)

RECURSIVE Split(_)
\* s.split(b'.'): b'' gives [b''], a trailing dot gives a last empty label
Split(s) ==
    LET i == FirstDot(s, 1)
    IN  IF i = 0 THEN <<s>>
        ELSE <<SubSeq(s, 1, i - 1)>> \o Split(SubSeq(s, i + 1, Len(s)))

RECURSIVE Join(_)
\* b'.'.join(parts): the empty list gives b''
Join(parts) ==
    IF parts = << >> THEN << >>
    ELSE IF Len(parts) = 1 THEN parts[1]
    ELSE parts[1] \o <<Dot>> \o Join(Tail(parts))

\* list.reverse() / reversed(list)
Reverse(parts) == [i \in 1..Len(parts) |-> parts[Len(parts) + 1 - i]]

(***************************************************************************)
(* Python's ordering of bytes and of lists of bytes                        *)
(***************************************************************************)
RECURSIVE BytesLess(_, _)
\* a < b for bytes: bytewise, a proper prefix is smaller
BytesLess(a, b) ==
    IF b = << >> THEN FALSE
    ELSE IF a = << >> THEN TRUE
    ELSE IF a[1] < b[1] THEN TRUE
    ELSE IF a[1] > b[1] THEN FALSE
    ELSE BytesLess(Tail(a), Tail(b))

RECURSIVE ListLess(_, _)
\* x < y for lists of bytes: elementwise, a proper prefix is smaller
ListLess(x, y) ==
    IF y = << >> THEN FALSE
    ELSE IF x = << >> THEN TRUE
    ELSE IF BytesLess(x[1], y[1]) THEN TRUE
    ELSE IF BytesLess(y[1], x[1]) THEN FALSE
    ELSE ListLess(Tail(x), Tail(y))

RECURSIVE Insert(_, _)
\* x put into the ascending list `sorted`, after the elements not above it
Insert(x, sorted) ==
    IF sorted = << >> THEN <<x>>
    ELSE IF ListLess(x, sorted[1]) THEN <<x>> \o sorted
    ELSE <<sorted[1]>> \o Insert(x, Tail(sorted))

RECURSIVE SortLists(_)
\* list.sort() of a list of lists of bytes: ascending, duplicates kept
SortLists(lists) ==
    IF lists = << >> THEN << >>
    ELSE Insert(lists[1], SortLists(Tail(lists)))

RECURSIVE Iterate(_)
\* the elements of a Python set in the order a for loop visits them.  The
\* order is the interpreter's; it is used only where the result does not
\* depend on it (the callers whose result does depend on it visit the
\* elements one step at a time, in every order).
Iterate(set) ==
    IF set = {} THEN << >>
    ELSE LET x == CHOOSE y \in set : TRUE
         IN  <<x>> \o Iterate(set \ {x})

(***************************************************************************)
(* validate_domain_list                                                    *)
(***************************************************************************)
\* hostname.decode('utf-8') succeeds.  The model's only byte above 127 is
\* 0xFF, which no UTF-8 text holds.
DecodesUtf8(hostname) == \A i \in 1..Len(hostname) : hostname[i] < 128

\* hostname.encode('idna') succeeds, for an ASCII hostname: b'' is encoded
\* as b''; otherwise every label but the last is 1..63 bytes long and the
\* last (empty after a trailing dot) is at most 63 bytes long.
EncodesIdna(hostname) ==
    \/ hostname = << >>
    \/ LET labels == Split(hostname)
       IN  /\ \A i \in 1..(Len(labels) - 1) :
                  Len(labels[i]) > 0 /\ Len(labels[i]) < 64
           /\ Len(labels[Len(labels)]) < 64

\* validate_domain_list(domains): the hostnames that decode and encode; an
\* ASCII hostname comes back byte for byte (encode('idna'), decode('ascii'),
\* encode('utf-8'))
validate_domain_list(domains) ==
    {hostname \in domains : DecodesUtf8(hostname) /\ EncodesIdna(hostname)}

(***************************************************************************)
(* extract_psl_domain, strip_to_psl                                        *)
(***************************************************************************)
\* the public-suffix dataset TLD_EXTRACT reads: the suffix 'c'
PublicSuffixes == {<<D_c>>}

\* TLD_EXTRACT(name): the longest run of trailing labels that is a public
\* suffix is .suffix, the label left of it is .domain (b'' when there is
\* none); a name with no public suffix has its last label as .domain and an
\* empty .suffix
TLD_EXTRACT(name) ==
    LET labels == Split(name)
        n      == Len(labels)
        starts == {i \in 1..n : SubSeq(labels, i, n) \in PublicSuffixes}
        first  == IF starts = {} THEN n + 1
                  ELSE CHOOSE i \in starts : \A j \in starts : i <= j
    IN  [domain |-> IF first > 1 THEN labels[first - 1] ELSE << >>,
         suffix |-> Join(SubSeq(labels, first, n))]

\* dom.domain + '.' + dom.suffix
extract_psl_domain(domain) ==
    LET dom == TLD_EXTRACT(domain)
    IN  dom.domain \o <<Dot>> \o dom.suffix

strip_to_psl(domains) == {extract_psl_domain(line) : line \in domains}

(***************************************************************************)
(* prune_redundant_rules: the body of its outer loop for one domain        *)
(***************************************************************************)
\* the values domain_to_check takes for `domain`, one per index in
\* range(len(domain_parts_msb)): b'.'.join(domain_parts_msb[0:index])
domain_to_check(domain, index) ==
    Join(SubSeq(Reverse(Split(domain)), 1, index))

\* how many times the inner loop finds domain_to_check in domains_orig,
\* that is, how many times it calls domains.remove(domain)
PruneHits(domain, orig) ==
    Cardinality({index \in 0..(Len(Split(domain)) - 1) :
                    domain_to_check(domain, index) \in orig})

\* what the inner loop does to `domain`: nothing, one domains.remove(domain),
\* or a second domains.remove(domain) of a domain no longer in the set,
\* which raises KeyError
PruneOutcome(hits) ==
    IF hits = 0 THEN "kept"
    ELSE IF hits = 1 THEN "removed"
    ELSE "KeyError"

(***************************************************************************)
(* group_by_tld                                                            *)
(***************************************************************************)
\* empty labels dropped on the way, as the normalizers' filter(None, ...)
rev_domain_filtered(domain) ==
    Reverse(SelectSeq(Split(domain), LAMBDA label : label # << >>))

\* rev_domain = domain.split(b'.'); rev_domain.reverse()
rev_domain(domain) == Reverse(Split(domain))

\* rev_domain.reverse(); b'.'.join(rev_domain)
unreverse(rev) == Join(Reverse(rev))

\* the label lists sorted as they are, leftmost label first
group_by_plain_labels(domains) ==
    LET order  == Iterate(domains)
        sorted == SortLists([i \in 1..Len(order) |-> Split(order[i])])
    IN  [i \in 1..Len(sorted) |-> Join(sorted[i])]

group_by_tld(domains) ==
    LET order            == Iterate(domains)
        reversed_domains == [i \in 1..Len(order) |-> rev_domain(order[i])]
        sorted           == SortLists(reversed_domains)
    IN  [i \in 1..Len(sorted) |-> unreverse(sorted[i])]

(***************************************************************************)
(* The inputs of a run                                                     *)
(***************************************************************************)
\* how many entries config.sources holds at most
MaxSources == 2

\* the names a remote hosts-format list may yield
\* (extract_domain_set_from_hosts_format_bytes keeps an empty name)
RemoteNames == {D_empty, D_c, D_ec, D_aec, D_bec, D_ce, D_l, D_bad}

\* the names the lines of /etc/dnsgate/whitelist may hold
WhitelistNames == {D_ec, D_aec, D_bec, D_bad}

\* the names the lines of /etc/dnsgate/blacklist may hold
BlacklistNames == {D_ec, D_aec, D_bad}

\* what one entry of config.sources comes to: not an http(s) URL, an
\* exception while fetching or parsing, or the domain set of the list
SourceOutcomes ==
    {[kind |-> k, domains |-> {}] : k \in {"not_http", "exception"}}
    \cup {[kind |-> "fetched", domains |-> d] : d \in SUBSET RemoteNames}

(***************************************************************************)
(* State                                                                   *)
(***************************************************************************)
VARIABLES
    pc,                     \* where the run is
    status,                 \* "running", or how the process ended
    block_at_psl,           \* config.block_at_psl
    mode,                   \* config.mode
    call_input,             \* what a helper called on its own was given
    call_result,            \* what a helper called on its own returned
    rule_file,              \* the bytes of a local rule file
    append_calls,           \* append_to_local_rule_file calls made so far
    sources_left,           \* entries of config.sources not yet visited
    domains_whitelist,
    domains_combined_orig,
    domains_combined,
    readd_todo,             \* domains_combined_orig's elements not yet visited
    domains_blacklist,
    domains_orig,           \* prune_redundant_rules' snapshot
    prune_todo,             \* domains_orig's elements not yet visited
    pruned_once,            \* the result of a first prune_redundant_rules
    sorted_output,          \* group_by_tld's list
    warnings,               \* whitelist domains named in a conflict warning
    output_written,         \* output.write was called
    restarted               \* restart_dnsmasq_service was called

vars == <<pc, status, block_at_psl, mode, call_input, call_result,
          rule_file, append_calls, sources_left,
          domains_whitelist,
          domains_combined_orig, domains_combined, readd_todo,
          domains_blacklist, domains_orig, prune_todo, pruned_once,
          sorted_output, warnings, output_written, restarted>>

helper_vars == <<call_result, rule_file, append_calls>>
config_vars == <<block_at_psl, mode, call_input, helper_vars>>
prune_vars  == <<domains_orig, prune_todo, pruned_once>>
effect_vars == <<warnings, output_written, restarted>>

\* generate is entered: nothing read, nothing written
Init ==
    /\ pc = "whitelist"
    /\ status = "running"
    /\ block_at_psl \in BOOLEAN
    /\ mode \in {"dnsmasq", "hosts"}
    /\ call_input = {}
    /\ call_result = {}
    /\ rule_file = << >>
    /\ append_calls = 0
    /\ sources_left \in 0..MaxSources
    /\ domains_whitelist = {}
    /\ domains_combined_orig = {}
    /\ domains_combined = {}
    /\ readd_todo = {}
    /\ domains_blacklist = {}
    /\ domains_orig = {}
    /\ prune_todo = {}
    /\ pruned_once = {}
    /\ sorted_output = << >>
    /\ warnings = {}
    /\ output_written = FALSE
    /\ restarted = FALSE

(***************************************************************************)
(* generate                                                                *)
(***************************************************************************)
\* the whitelist file is read; a missing file gives the empty set, a
\* non-empty set is validated
ReadWhitelist ==
    /\ pc = "whitelist"
    /\ \E file \in SUBSET WhitelistNames :
           domains_whitelist' =
               IF file # {} THEN validate_domain_list(file) ELSE file
    /\ pc' = "fetch"
    /\ UNCHANGED <<status, config_vars, sources_left, domains_combined_orig,
                   domains_combined, readd_todo, domains_blacklist,
                   prune_vars, sorted_output, effect_vars>>

\* a loop that a failing entry ends: the entries after it are not visited
FetchItemStopAtFailure(item) ==
    /\ domains_combined_orig' =
           IF item.kind = "fetched" /\ item.domains # {}
           THEN domains_combined_orig \cup item.domains
           ELSE domains_combined_orig
    /\ sources_left' =
           IF item.kind = "fetched" /\ item.domains # {}
           THEN sources_left - 1
           ELSE 0
    /\ UNCHANGED <<pc, status, config_vars, domains_whitelist,
                   domains_combined, readd_todo, domains_blacklist,
                   prune_vars, sorted_output, effect_vars>>

\* the loop's body for one entry of config.sources: only a non-empty
\* fetched set is united; the other branches (not an http URL, an exception
\* caught at line 775, an empty set) report and go on to the next entry
FetchItem(item) ==
    /\ domains_combined_orig' =
           IF item.kind = "fetched" /\ item.domains # {}
           THEN domains_combined_orig \cup item.domains
           ELSE domains_combined_orig
    /\ sources_left' = sources_left - 1
    /\ UNCHANGED <<pc, status, config_vars, domains_whitelist,
                   domains_combined, readd_todo, domains_blacklist,
                   prune_vars, sorted_output, effect_vars>>

\* one entry of config.sources is visited, whatever it comes to
FetchSource ==
    /\ pc = "fetch"
    /\ sources_left > 0
    /\ \E item \in SourceOutcomes : FetchItem(item)

\* after the loop: the remote set is validated and copied
ValidateRemote ==
    /\ pc = "fetch"
    /\ sources_left = 0
    /\ domains_combined_orig' = validate_domain_list(domains_combined_orig)
    /\ domains_combined' = domains_combined_orig'
    /\ pc' = "psl"
    /\ UNCHANGED <<status, config_vars, sources_left, domains_whitelist,
                   readd_todo, domains_blacklist, prune_vars, sorted_output,
                   effect_vars>>

\* the hosts-mode branch left out
PslHostsNeverRejected(psl, m) == FALSE

\* elif config.block_at_psl and config.mode == 'hosts'
PslHostsRejected(psl, m) == psl /\ m = "hosts"

\* for domain in domains_whitelist: remove extract_psl_domain(domain) from
\* the set when it is there (the set left does not depend on the order)
RemoveWhitelistedPsl(combined, whitelist) ==
    combined \ {extract_psl_domain(domain) : domain \in whitelist}

\* block_at_psl outside hosts mode: strip to PSL, then, with a non-empty
\* whitelist, subtract it and remove the PSL domain of each of its entries
StripToPsl ==
    /\ pc = "psl"
    /\ block_at_psl /\ mode # "hosts"
    /\ domains_combined' =
           IF domains_whitelist # {}
           THEN RemoveWhitelistedPsl(
                    strip_to_psl(domains_combined) \ domains_whitelist,
                    domains_whitelist)
           ELSE strip_to_psl(domains_combined)
    /\ readd_todo' = domains_combined_orig
    /\ pc' = "readd"
    /\ UNCHANGED <<status, config_vars, sources_left, domains_whitelist,
                   domains_combined_orig, domains_blacklist, prune_vars,
                   sorted_output, effect_vars>>

\* block_at_psl in hosts mode: quit(1)
HostsPslQuit ==
    /\ pc = "psl"
    /\ ~(block_at_psl /\ mode # "hosts")
    /\ PslHostsRejected(block_at_psl, mode)
    /\ pc' = "exit"
    /\ status' = "failed"
    /\ UNCHANGED <<config_vars, sources_left, domains_whitelist,
                   domains_combined_orig, domains_combined, readd_todo,
                   domains_blacklist, prune_vars, sorted_output, effect_vars>>

\* neither branch
NoPsl ==
    /\ pc = "psl"
    /\ ~(block_at_psl /\ mode # "hosts")
    /\ ~PslHostsRejected(block_at_psl, mode)
    /\ pc' = "apply_whitelist"
    /\ UNCHANGED <<status, config_vars, sources_left, domains_whitelist,
                   domains_combined_orig, domains_combined, readd_todo,
                   domains_blacklist, prune_vars, sorted_output, effect_vars>>

\* a fourth test: the PSL domain is not whitelisted either
ReAddedUnlessPslWhitelisted(orig_domain, whitelist, combined) ==
    /\ orig_domain \notin whitelist
    /\ orig_domain \notin combined
    /\ extract_psl_domain(orig_domain) \notin combined
    /\ extract_psl_domain(orig_domain) \notin whitelist

\* the three nested tests of the re-adding loop
ReAdded(orig_domain, whitelist, combined) ==
    /\ orig_domain \notin whitelist
    /\ orig_domain \notin combined
    /\ extract_psl_domain(orig_domain) \notin combined

\* one turn of the re-adding loop, for any element not yet visited
ReAddStep ==
    /\ pc = "readd"
    /\ \E orig_domain \in readd_todo :
           /\ domains_combined' =
                  IF ReAdded(orig_domain, domains_whitelist, domains_combined)
                  THEN domains_combined \cup {orig_domain}
                  ELSE domains_combined
           /\ readd_todo' = readd_todo \ {orig_domain}
    /\ UNCHANGED <<pc, status, config_vars, sources_left, domains_whitelist,
                   domains_combined_orig, domains_blacklist, prune_vars,
                   sorted_output, effect_vars>>

ReAddDone ==
    /\ pc = "readd"
    /\ readd_todo = {}
    /\ pc' = "apply_whitelist"
    /\ UNCHANGED <<status, config_vars, sources_left, domains_whitelist,
                   domains_combined_orig, domains_combined, readd_todo,
                   domains_blacklist, prune_vars, sorted_output, effect_vars>>

\* the whitelist compared by PSL domain, not exactly
SubtractPslOfWhitelist(combined, whitelist) ==
    combined \ {extract_psl_domain(domain) : domain \in whitelist}

\* domains_combined - domains_whitelist
SubtractWhitelist(combined, whitelist) == combined \ whitelist

\* apply whitelist before applying local blacklist
ApplyWhitelist ==
    /\ pc = "apply_whitelist"
    /\ domains_combined' = SubtractWhitelist(domains_combined, domains_whitelist)
    /\ pc' = "local_blacklist"
    /\ UNCHANGED <<status, config_vars, sources_left, domains_whitelist,
                   domains_combined_orig, readd_todo, domains_blacklist,
                   prune_vars, sorted_output, effect_vars>>

\* the whitelist applied after the local blacklist
UniteThenSubtractWhitelist(combined, blacklist) ==
    (combined \cup blacklist) \ domains_whitelist

\* a non-empty local blacklist is united, as read
UniteLocalBlacklist(combined, blacklist) ==
    IF blacklist # {} THEN combined \cup blacklist ELSE combined

\* the local blacklist file is read (a missing file gives the empty set)
ReadLocalBlacklist ==
    /\ pc = "local_blacklist"
    /\ \E file \in SUBSET BlacklistNames :
           /\ domains_blacklist' = file
           /\ domains_combined' = UniteLocalBlacklist(domains_combined, file)
    /\ pc' = "validate_final"
    /\ UNCHANGED <<status, config_vars, sources_left, domains_whitelist,
                   domains_combined_orig, readd_todo, prune_vars,
                   sorted_output, effect_vars>>

\* the final set is validated, and prune_redundant_rules entered: it copies
\* the set
ValidateFinal ==
    /\ pc = "validate_final"
    /\ domains_combined' = validate_domain_list(domains_combined)
    /\ domains_orig' = domains_combined'
    /\ prune_todo' = domains_combined'
    /\ pc' = "prune"
    /\ UNCHANGED <<status, config_vars, sources_left, domains_whitelist,
                   domains_combined_orig, readd_todo, domains_blacklist,
                   pruned_once, sorted_output, effect_vars>>

\* the outer loop left at the first removal
LeftToVisitUntilRemoval(todo, domain, outcome) ==
    IF outcome = "kept" THEN todo \ {domain} ELSE {}

\* for domain in domains_orig: what is left to visit after `domain`
LeftToVisit(todo, domain, outcome) == todo \ {domain}

\* one turn of prune_redundant_rules' outer loop, for any element of the
\* snapshot not yet visited.  An uncaught KeyError ends the process.
PruneStep ==
    /\ pc \in {"prune", "prune_first", "prune_second"}
    /\ \E domain \in prune_todo :
           LET outcome == PruneOutcome(PruneHits(domain, domains_orig))
           IN  /\ domains_combined' =
                      IF outcome = "kept" THEN domains_combined
                      ELSE domains_combined \ {domain}
               /\ prune_todo' = LeftToVisit(prune_todo, domain, outcome)
               /\ pc' = IF outcome = "KeyError" THEN "exit" ELSE pc
               /\ status' = IF outcome = "KeyError" THEN "failed" ELSE status
    /\ UNCHANGED <<config_vars, sources_left, domains_whitelist,
                   domains_combined_orig, readd_todo, domains_blacklist,
                   domains_orig, pruned_once, sorted_output, effect_vars>>

\* prune_redundant_rules returns to generate
PruneReturn ==
    /\ pc = "prune"
    /\ prune_todo = {}
    /\ pc' = "group"
    /\ UNCHANGED <<status, config_vars, sources_left, domains_whitelist,
                   domains_combined_orig, domains_combined, readd_todo,
                   domains_blacklist, prune_vars, sorted_output, effect_vars>>

\* domains_combined = group_by_tld(domains_combined)
GroupByTld ==
    /\ pc = "group"
    /\ sorted_output' = group_by_tld(domains_combined)
    /\ pc' = "check_empty"
    /\ UNCHANGED <<status, config_vars, sources_left, domains_whitelist,
                   domains_combined_orig, domains_combined, readd_todo,
                   domains_blacklist, prune_vars, effect_vars>>

\* the elements of a list
Elements(list) == {list[i] : i \in 1..Len(list)}

\* the emptiness test left out
ListNeverEmpty(final) == FALSE

\* if not domains_combined
ListIsEmpty(final) == final = << >>

\* an empty list: quit(1).  (The backup before it copies the old output file
\* to another file and leaves the output file alone.)
EmptyQuit ==
    /\ pc = "check_empty"
    /\ ListIsEmpty(sorted_output)
    /\ pc' = "exit"
    /\ status' = "failed"
    /\ UNCHANGED <<config_vars, sources_left, domains_whitelist,
                   domains_combined_orig, domains_combined, readd_todo,
                   domains_blacklist, prune_vars, sorted_output, effect_vars>>

\* the whitelist domains that are themselves in the final list
ConflictWarningsExact(whitelist, final) == whitelist \cap Elements(final)

\* the whitelist domains the warning loop names: those whose PSL domain is
\* in the final list
ConflictWarnings(whitelist, final) ==
    {domain \in whitelist : extract_psl_domain(domain) \in Elements(final)}

WarnConflicts ==
    /\ pc = "check_empty"
    /\ ~ListIsEmpty(sorted_output)
    /\ warnings' = ConflictWarnings(domains_whitelist, sorted_output)
    /\ pc' = "write"
    /\ UNCHANGED <<status, config_vars, sources_left, domains_whitelist,
                   domains_combined_orig, domains_combined, readd_todo,
                   domains_blacklist, prune_vars, sorted_output,
                   output_written, restarted>>

\* the header and one line per domain are written, the file closed
WriteOutput ==
    /\ pc = "write"
    /\ output_written' = TRUE
    /\ pc' = "restart"
    /\ UNCHANGED <<status, config_vars, sources_left, domains_whitelist,
                   domains_combined_orig, domains_combined, readd_todo,
                   domains_blacklist, prune_vars, sorted_output, warnings,
                   restarted>>

\* dnsmasq is restarted unless config.no_restart_dnsmasq or hosts mode;
\* generate returns
Restart ==
    /\ pc = "restart"
    /\ \E no_restart_dnsmasq \in BOOLEAN :
           restarted' = (~no_restart_dnsmasq /\ mode # "hosts")
    /\ pc' = "exit"
    /\ status' = "ok"
    /\ UNCHANGED <<config_vars, sources_left, domains_whitelist,
                   domains_combined_orig, domains_combined, readd_todo,
                   domains_blacklist, prune_vars, sorted_output, warnings,
                   output_written>>

Next ==
    \/ ReadWhitelist
    \/ FetchSource
    \/ ValidateRemote
    \/ StripToPsl
    \/ HostsPslQuit
    \/ NoPsl
    \/ ReAddStep
    \/ ReAddDone
    \/ ApplyWhitelist
    \/ ReadLocalBlacklist
    \/ ValidateFinal
    \/ PruneStep
    \/ PruneReturn
    \/ GroupByTld
    \/ EmptyQuit
    \/ WarnConflicts
    \/ WriteOutput
    \/ Restart

Spec == Init /\ [][Next]_vars

(***************************************************************************)
(* prune_redundant_rules on its own: every set of PruneNames is pruned,    *)
(* and the result pruned again                                             *)
(***************************************************************************)
PruneNames == {D_empty, D_c, D_ec, D_aec, D_bec, D_ce, D_l, D_ldot}

InitPrune ==
    /\ pc = "prune_first"
    /\ status = "running"
    /\ block_at_psl = FALSE
    /\ mode = "dnsmasq"
    /\ call_input \in SUBSET PruneNames
    /\ call_result = {}
    /\ rule_file = << >>
    /\ append_calls = 0
    /\ sources_left = 0
    /\ domains_whitelist = {}
    /\ domains_combined_orig = {}
    /\ domains_combined = call_input
    /\ readd_todo = {}
    /\ domains_blacklist = {}
    /\ domains_orig = domains_combined
    /\ prune_todo = domains_combined
    /\ pruned_once = {}
    /\ sorted_output = << >>
    /\ warnings = {}
    /\ output_written = FALSE
    /\ restarted = FALSE

\* the first call returns; the second is entered on its result
PruneFirstReturn ==
    /\ pc = "prune_first"
    /\ prune_todo = {}
    /\ pruned_once' = domains_combined
    /\ domains_orig' = domains_combined
    /\ prune_todo' = domains_combined
    /\ pc' = "prune_second"
    /\ UNCHANGED <<status, config_vars, sources_left, domains_whitelist,
                   domains_combined_orig, domains_combined, readd_todo,
                   domains_blacklist, sorted_output, effect_vars>>

\* the second call returns
PruneSecondReturn ==
    /\ pc = "prune_second"
    /\ prune_todo = {}
    /\ pc' = "pruned_twice"
    /\ UNCHANGED <<status, config_vars, sources_left, domains_whitelist,
                   domains_combined_orig, domains_combined, readd_todo,
                   domains_blacklist, prune_vars, sorted_output, effect_vars>>

NextPrune == PruneStep \/ PruneFirstReturn \/ PruneSecondReturn

SpecPrune == InitPrune /\ [][NextPrune]_vars

(***************************************************************************)
(* group_by_tld on its own: every set of GroupNames is grouped             *)
(***************************************************************************)
GroupNames == {D_empty, D_c, D_ec, D_aec, D_bec, D_adc, D_l, D_ldot}

InitGroup ==
    /\ pc = "group_only"
    /\ status = "running"
    /\ block_at_psl = FALSE
    /\ mode = "dnsmasq"
    /\ call_input \in SUBSET GroupNames
    /\ call_result = {}
    /\ rule_file = << >>
    /\ append_calls = 0
    /\ sources_left = 0
    /\ domains_whitelist = {}
    /\ domains_combined_orig = {}
    /\ domains_combined = call_input
    /\ readd_todo = {}
    /\ domains_blacklist = {}
    /\ domains_orig = {}
    /\ prune_todo = {}
    /\ pruned_once = {}
    /\ sorted_output = << >>
    /\ warnings = {}
    /\ output_written = FALSE
    /\ restarted = FALSE

GroupCall ==
    /\ pc = "group_only"
    /\ sorted_output' = group_by_tld(domains_combined)
    /\ pc' = "grouped"
    /\ UNCHANGED <<status, config_vars, sources_left, domains_whitelist,
                   domains_combined_orig, domains_combined, readd_todo,
                   domains_blacklist, prune_vars, effect_vars>>

NextGroup == GroupCall

SpecGroup == InitGroup /\ [][NextGroup]_vars

(***************************************************************************)
(* the loop over config.sources on its own: the list of what each entry    *)
(* comes to is fixed beforehand (call_input) and visited in order          *)
(***************************************************************************)
MaxListed == 3

ListedOutcomes ==
    {[kind |-> k, domains |-> {}] : k \in {"not_http", "exception"}}
    \cup {[kind |-> "fetched", domains |-> d] :
              d \in {{}, {D_ec}, {D_c}, {D_aec, D_bad}}}

InitFetch ==
    /\ pc = "fetch"
    /\ status = "running"
    /\ block_at_psl = FALSE
    /\ mode = "dnsmasq"
    /\ call_input \in UNION {[1..n -> ListedOutcomes] : n \in 0..MaxListed}
    /\ call_result = {}
    /\ rule_file = << >>
    /\ append_calls = 0
    /\ sources_left = Len(call_input)
    /\ domains_whitelist = {}
    /\ domains_combined_orig = {}
    /\ domains_combined = {}
    /\ readd_todo = {}
    /\ domains_blacklist = {}
    /\ domains_orig = {}
    /\ prune_todo = {}
    /\ pruned_once = {}
    /\ sorted_output = << >>
    /\ warnings = {}
    /\ output_written = FALSE
    /\ restarted = FALSE

\* the next entry of the list is visited
FetchListed ==
    /\ pc = "fetch"
    /\ sources_left > 0
    /\ FetchItem(call_input[Len(call_input) - sources_left + 1])

NextFetch == FetchListed \/ ValidateRemote

SpecFetch == InitFetch /\ [][NextFetch]_vars

(***************************************************************************)
(* append_to_local_rule_file on its own: the same domain is appended to    *)
(* the same file again and again                                           *)
(***************************************************************************)
Newline == 10

MaxFileLen == 3
MaxAppends == 3

\* what generate works on, left alone by the helpers called on their own
generate_vars == <<sources_left, domains_whitelist, domains_combined_orig,
                   domains_combined, readd_todo, domains_blacklist,
                   prune_vars, sorted_output, effect_vars>>

\* the position of the first newline of bytes, 0 when there is none
FirstNewline(bytes) ==
    IF \E i \in 1..Len(bytes) : bytes[i] = Newline
    THEN CHOOSE i \in 1..Len(bytes) :
             /\ bytes[i] = Newline
             /\ \A j \in 1..(i - 1) : bytes[j] # Newline
    ELSE 0

\* the lines iterating over an open file gives: each with its newline, the
\* last one without when the file does not end in one
RECURSIVE FileLines(_)
FileLines(bytes) ==
    IF bytes = << >> THEN {}
    ELSE IF FirstNewline(bytes) = 0 THEN {bytes}
    ELSE {SubSeq(bytes, 1, FirstNewline(bytes))}
         \cup FileLines(SubSeq(bytes, FirstNewline(bytes) + 1, Len(bytes)))

\* 'r+': the line is written at the end of the file unless iterating over
\* the file gives it; a missing file is created with the line
write_unique_line(line, file) ==
    IF file.exists
    THEN IF line \notin FileLines(file.bytes)
         THEN [exists |-> TRUE, bytes |-> file.bytes \o line]
         ELSE file
    ELSE [exists |-> TRUE, bytes |-> line]

\* the file as append_to_local_rule_file leaves it; idn is an ASCII name,
\* which idn.encode('idna').decode('ascii') gives back as it is when it
\* encodes
append_to_local_rule_file(file, idn) ==
    write_unique_line(idn \o <<Newline>>, file)

\* the files: missing, or any bytes of 'c', '#' and newline
RuleFiles ==
    {[exists |-> FALSE, bytes |-> << >>]}
    \cup {[exists |-> TRUE, bytes |-> b] :
              b \in UNION {[1..n -> {99, 35, Newline}] : n \in 0..MaxFileLen}}

AppendNames == {D_c, D_ec, D_dotc}

InitAppend ==
    /\ pc = "append"
    /\ status = "running"
    /\ block_at_psl = FALSE
    /\ mode = "dnsmasq"
    /\ call_input \in [rule_file : RuleFiles, idn : AppendNames]
    /\ call_result = call_input.rule_file
    /\ rule_file = call_input.rule_file
    /\ append_calls = 0
    /\ sources_left = 0
    /\ domains_whitelist = {}
    /\ domains_combined_orig = {}
    /\ domains_combined = {}
    /\ readd_todo = {}
    /\ domains_blacklist = {}
    /\ domains_orig = {}
    /\ prune_todo = {}
    /\ pruned_once = {}
    /\ sorted_output = << >>
    /\ warnings = {}
    /\ output_written = FALSE
    /\ restarted = FALSE

\* one call with a name that encodes; call_result keeps the file as the
\* first call left it
AppendCall ==
    /\ pc = "append"
    /\ append_calls < MaxAppends
    /\ EncodesIdna(call_input.idn)
    /\ rule_file' = append_to_local_rule_file(rule_file, call_input.idn)
    /\ append_calls' = append_calls + 1
    /\ call_result' = IF append_calls = 0 THEN rule_file' ELSE call_result
    /\ UNCHANGED <<pc, status, block_at_psl, mode, call_input, generate_vars>>

\* idn.encode('idna') raises: nothing is written
AppendRaises ==
    /\ pc = "append"
    /\ ~EncodesIdna(call_input.idn)
    /\ pc' = "exit"
    /\ status' = "failed"
    /\ UNCHANGED <<config_vars, generate_vars>>

NextAppend == AppendCall \/ AppendRaises

SpecAppend == InitAppend /\ [][NextAppend]_vars

(***************************************************************************)
(* the two parsers on their own: extract_domain_set_from_hosts_format_bytes *)
(* and extract_domain_set_from_dnsgate_format_file, on the same bytes      *)
(***************************************************************************)
Space == 32
Tab == 9
Hash == 35

MaxBytes == 3

\* what bytes.split() and bytes.strip() take for whitespace
Whitespace == {Space, Tab, Newline, 11, 12, 13}

RECURSIVE SplitOn(_, _)
\* s.split(sep) for a one-byte sep
SplitOn(s, sep) ==
    IF \E i \in 1..Len(s) : s[i] = sep
    THEN LET i == CHOOSE k \in 1..Len(s) :
                      s[k] = sep /\ \A j \in 1..(k - 1) : s[j] # sep
         IN  <<SubSeq(s, 1, i - 1)>> \o SplitOn(SubSeq(s, i + 1, Len(s)), sep)
    ELSE <<s>>

RECURSIVE JoinOn(_, _)
\* sep.join(parts) for a one-byte sep
JoinOn(parts, sep) ==
    IF parts = << >> THEN << >>
    ELSE IF Len(parts) = 1 THEN parts[1]
    ELSE parts[1] \o <<sep>> \o JoinOn(Tail(parts), sep)

\* bytes.splitlines(), for bytes whose only line boundary is the newline:
\* no empty last line
splitlines(bytes) ==
    LET lines == SplitOn(bytes, Newline)
    IN  IF lines[Len(lines)] = << >>
        THEN SubSeq(lines, 1, Len(lines) - 1)
        ELSE lines

\* line.replace(b'\t', b' ')
expand_tabs(line) ==
    [i \in 1..Len(line) |-> IF line[i] = Tab THEN Space ELSE line[i]]

RECURSIVE strip_left(_)
strip_left(line) ==
    IF line # << >> /\ line[1] \in Whitespace
    THEN strip_left(Tail(line))
    ELSE line

RECURSIVE strip_right(_)
strip_right(line) ==
    IF line # << >> /\ line[Len(line)] \in Whitespace
    THEN strip_right(SubSeq(line, 1, Len(line) - 1))
    ELSE line

\* line.strip()
strip(line) == strip_right(strip_left(line))

RECURSIVE split_whitespace(_)
\* line.split(): the runs of bytes that are not whitespace
split_whitespace(line) ==
    LET rest == strip_left(line)
    IN  IF rest = << >> THEN << >>
        ELSE LET n == IF \E i \in 1..Len(rest) : rest[i] \in Whitespace
                      THEN (CHOOSE i \in 1..Len(rest) :
                                /\ rest[i] \in Whitespace
                                /\ \A j \in 1..(i - 1) :
                                       rest[j] \notin Whitespace) - 1
                      ELSE Len(rest)
             IN  <<SubSeq(rest, 1, n)>>
                 \o split_whitespace(SubSeq(rest, n + 1, Len(rest)))

\* the bytes before the first b'#'
remove_comments_from_bytes(line) ==
    IF \E i \in 1..Len(line) : line[i] = Hash
    THEN SubSeq(line, 1,
                (CHOOSE i \in 1..Len(line) :
                     line[i] = Hash /\ \A j \in 1..(i - 1) : line[j] # Hash)
                - 1)
    ELSE line

\* b'.'.join(list(filter(None, line.split(b'.'))))
ignore_dots(line) ==
    Join(SelectSeq(Split(line), LAMBDA label : label # << >>))

\* what one line of a hosts file adds to the set
hosts_line_domains(hosts_line) ==
    LET line == remove_comments_from_bytes(
                    strip(JoinOn(split_whitespace(expand_tabs(hosts_line)),
                                 Space)))
    IN  IF \E i \in 1..Len(line) : line[i] = Space
        THEN {ignore_dots(SplitOn(line, Space)[2])}
        ELSE {}

extract_domain_set_from_hosts_format_bytes(hosts_format_bytes) ==
    LET hosts_format_bytes_lines == SplitOn(hosts_format_bytes, Newline)
    IN  UNION {hosts_line_domains(hosts_format_bytes_lines[i]) :
                  i \in 1..Len(hosts_format_bytes_lines)}

\* what one line of a dnsgate file adds to the set
dnsgate_line_domains(dnsgate_line) ==
    LET line == ignore_dots(remove_comments_from_bytes(strip(dnsgate_line)))
    IN  IF Len(line) > 0 THEN {line} ELSE {}

extract_domain_set_from_dnsgate_format_file(dnsgate_file_bytes) ==
    LET lines == splitlines(dnsgate_file_bytes)
    IN  UNION {dnsgate_line_domains(lines[i]) : i \in 1..Len(lines)}

\* the bytes parsed: any bytes of 'x', space, tab, '#', '.' and newline
ParsedBytes ==
    UNION {[1..n -> {120, Space, Tab, Hash, Dot, Newline}] : n \in 0..MaxBytes}

InitParse ==
    /\ pc = "parse"
    /\ status = "running"
    /\ block_at_psl = FALSE
    /\ mode = "dnsmasq"
    /\ call_input \in ParsedBytes
    /\ call_result = {}
    /\ rule_file = << >>
    /\ append_calls = 0
    /\ sources_left = 0
    /\ domains_whitelist = {}
    /\ domains_combined_orig = {}
    /\ domains_combined = {}
    /\ readd_todo = {}
    /\ domains_blacklist = {}
    /\ domains_orig = {}
    /\ prune_todo = {}
    /\ pruned_once = {}
    /\ sorted_output = << >>
    /\ warnings = {}
    /\ output_written = FALSE
    /\ restarted = FALSE

\* the bytes are parsed as a hosts file
ParseHosts ==
    /\ pc = "parse"
    /\ call_result' = extract_domain_set_from_hosts_format_bytes(call_input)
    /\ pc' = "hosts_parsed"
    /\ UNCHANGED <<status, block_at_psl, mode, call_input, rule_file,
                   append_calls, generate_vars>>

\* the bytes are parsed as a whitelist or blacklist file
ParseDnsgate ==
    /\ pc = "parse"
    /\ call_result' = extract_domain_set_from_dnsgate_format_file(call_input)
    /\ pc' = "dnsgate_parsed"
    /\ UNCHANGED <<status, block_at_psl, mode, call_input, rule_file,
                   append_calls, generate_vars>>

NextParse == ParseHosts \/ ParseDnsgate

SpecParse == InitParse /\ [][NextParse]_vars

(***************************************************************************)
(* Properties                                                              *)
(***************************************************************************)
\* the run has united the local blacklist (line 858) and not yet validated
\* the final set
Reconciled == pc = "validate_final"

\* the run is past the final validation: domains_orig is the validated
\* reconciled set, as prune_redundant_rules found it
Validated == pc \in {"prune", "group", "check_empty", "write", "restart"}

\* validate_domain_list keeps d
IsValid(d) == DecodesUtf8(d) /\ EncodesIdna(d)

\* C1: every domain of the local blacklist is in the reconciled set, with or
\* without root reduction, whether or not it is whitelisted; the final
\* validation keeps every one of them that is a valid name.
C1_LocalOverrideWins ==
    /\ Reconciled => domains_blacklist \subseteq domains_combined
    /\ Validated =>
           \A d \in domains_blacklist : IsValid(d) => d \in domains_orig

\* C1 witness: root reduction on, a domain both whitelisted and locally
\* blacklisted, the local blacklist united
C1_Witness ==
    /\ Reconciled
    /\ block_at_psl
    /\ mode = "dnsmasq"
    /\ D_aec \in domains_blacklist \cap domains_whitelist
    /\ D_aec \notin domains_combined_orig

\* C2: with root reduction off and an empty local blacklist, no whitelisted
\* domain is in the reconciled set
C2_WhitelistPrecedence ==
    (~block_at_psl /\ domains_blacklist = {} /\ (Reconciled \/ Validated))
        => domains_combined \cap domains_whitelist = {}

\* C2 witness: a blacklisted domain is whitelisted, another is not
C2_Witness ==
    /\ Reconciled
    /\ ~block_at_psl
    /\ domains_blacklist = {}
    /\ domains_combined_orig = {D_ec, D_aec}
    /\ domains_whitelist = {D_aec}
    /\ domains_combined = {D_ec}

\* the domains of the original blacklist that are not whitelisted and whose
\* PSL domain is whitelisted
PslWhitelistedOnly ==
    {d \in domains_combined_orig :
        /\ d \notin domains_whitelist
        /\ extract_psl_domain(d) \in domains_whitelist}

\* C3 as stated: with root reduction on and an empty local blacklist, a
\* blacklisted domain that is not whitelisted and whose PSL domain is
\* whitelisted is absent from the reconciled set
C3_Original ==
    (Reconciled /\ block_at_psl /\ mode # "hosts" /\ domains_blacklist = {})
        => PslWhitelistedOnly \cap domains_combined = {}

\* C3 amended: such a domain is in the set when the re-adding loop is over,
\* and in the reconciled set
C3_ReAddedDespiteWhitelistedPsl ==
    (/\ pc \in {"apply_whitelist", "local_blacklist", "validate_final"}
     /\ block_at_psl /\ mode # "hosts" /\ domains_blacklist = {})
        => PslWhitelistedOnly \subseteq domains_combined

\* C3 witness: blacklist {a.e.c}, whitelist {e.c}: the reconciled set is
\* {a.e.c}
C3_Witness ==
    /\ Reconciled
    /\ block_at_psl
    /\ mode = "dnsmasq"
    /\ domains_blacklist = {}
    /\ domains_combined_orig = {D_aec}
    /\ domains_whitelist = {D_ec}
    /\ domains_combined = {D_aec}

\* C4 as stated: with root reduction on and an empty local blacklist, the
\* PSL domain of no whitelisted domain is in the reconciled set
C4_Original ==
    (Reconciled /\ block_at_psl /\ mode # "hosts" /\ domains_blacklist = {})
        => \A w \in domains_whitelist :
               extract_psl_domain(w) \notin domains_combined

\* C5: a run with block_at_psl in hosts mode never gets past the mode test,
\* never writes the output, can always take a step until it has exited, and
\* exits with a failure status
C5_PslHostsRejected ==
    (block_at_psl /\ mode = "hosts") =>
        /\ pc \in {"whitelist", "fetch", "psl", "exit"}
        /\ ~output_written
        /\ pc = "exit" => status = "failed"
        /\ pc # "exit" => ENABLED Next

\* C5 witness: such a run has exited, with a whitelist and a blacklist read
C5_Witness ==
    /\ block_at_psl
    /\ mode = "hosts"
    /\ pc = "exit"
    /\ status = "failed"
    /\ domains_whitelist # {}
    /\ domains_combined_orig # {}

\* ancestor is d or a strict label-suffix of d: d ends in '.' + ancestor
CoveredBy(d, ancestor) ==
    \/ d = ancestor
    \/ /\ Len(d) > Len(ancestor)
       /\ SubSeq(d, Len(d) - Len(ancestor) + 1, Len(d)) = ancestor
       /\ d[Len(d) - Len(ancestor)] = Dot

NoAncestorPair(set) ==
    \A d1, d2 \in set : d1 # d2 => ~CoveredBy(d1, d2)

\* prune_redundant_rules' loop is over (the call returns)
PruneOver ==
    \/ pc \in {"prune_first", "prune_second"} /\ prune_todo = {}
    \/ pc = "pruned_twice"

\* C6 as stated: when prune_redundant_rules returns, no remaining domain is
\* a proper ancestor of another remaining domain
C6_Original == PruneOver => NoAncestorPair(domains_combined)

\* C7: a second prune_redundant_rules on the result of a first one raises
\* nothing and removes nothing
C7_PruneIdempotent ==
    /\ pc \in {"prune_second", "pruned_twice"} => domains_combined = pruned_once
    /\ pc = "exit" => pruned_once = {}

\* C7 witness: the second call has returned, the first having removed a
\* domain
C7_Witness ==
    /\ pc = "pruned_twice"
    /\ call_input = {D_c, D_ec, D_l}
    /\ pruned_once = {D_c, D_l}
    /\ domains_combined = {D_c, D_l}

\* C8: group_by_tld's list has as many entries as the set has elements, and
\* its entries are the set's elements
C8_GroupPermutation ==
    pc = "grouped" =>
        /\ Len(sorted_output) = Cardinality(call_input)
        /\ Elements(sorted_output) = call_input

\* C8 witness: a set with the empty name and a name with a trailing dot
C8_Witness ==
    /\ pc = "grouped"
    /\ call_input = {D_empty, D_l, D_ldot, D_aec}
    /\ Len(sorted_output) = 4

\* the label suffixes of d, as bytes: d, and what follows each of its dots
LabelSuffixes(d) ==
    {SubSeq(d, k, Len(d)) : k \in {1} \cup {i + 1 : i \in {j \in 1..Len(d) : d[j] = Dot}}}

\* C9: group_by_tld's list ascends by reversed label list, and for every
\* label suffix the domains it covers are consecutive
C9_GroupedBySuffix ==
    pc = "grouped" =>
        /\ \A i, j \in 1..Len(sorted_output) :
               i < j => ListLess(Reverse(Split(sorted_output[i])),
                                 Reverse(Split(sorted_output[j])))
        /\ \A i, j, k \in 1..Len(sorted_output) :
               (i < k /\ k < j) =>
                   \A s \in LabelSuffixes(sorted_output[i]) :
                       (CoveredBy(sorted_output[i], s) /\ CoveredBy(sorted_output[j], s))
                           => CoveredBy(sorted_output[k], s)

\* C9 witness: names of different depths under c and under e.c
C9_Witness ==
    /\ pc = "grouped"
    /\ sorted_output = <<D_c, D_adc, D_ec, D_aec, D_bec, D_l>>

\* the run has reached its output
ReachedOutput == pc \in {"write", "restart"} \/ (pc = "exit" /\ status = "ok")

\* C10 as stated: in a run that reaches its output, every domain both in
\* the whitelist and in the local blacklist is named in a conflict warning
C10_Original ==
    ReachedOutput =>
        \A d \in domains_whitelist \cap domains_blacklist : d \in warnings

C12_EmptyAborts ==
    /\ (pc = "check_empty" /\ sorted_output = << >>) =>
           (ENABLED EmptyQuit /\ ~ENABLED WarnConflicts)
    /\ sorted_output = << >> =>
           /\ pc \notin {"write", "restart"}
           /\ ~output_written
           /\ ~restarted
           /\ pc = "exit" => status = "failed"

\* C12 witness: without root reduction the only blacklisted domain is
\* whitelisted; nothing is left and the run has quit
C12_Witness ==
    /\ pc = "exit"
    /\ status = "failed"
    /\ ~block_at_psl
    /\ domains_combined_orig = {D_ec}
    /\ domains_whitelist = {D_ec}
    /\ domains_blacklist = {}
    /\ domains_combined = {}
    /\ ~output_written
    /\ ~restarted

\* the domains of the fetched lists among the first n entries
FetchedSoFar(list, n) ==
    UNION {list[i].domains : i \in {j \in 1..n : list[j].kind = "fetched"}}

\* C13: during the loop over the sources the combined set is the union of
\* the domains of the lists fetched so far, whatever the other entries came
\* to; the run is never ended by an entry, the next entry can always be
\* visited, and after the last one the validated union is what goes on
C13_FailedSourceSkipped ==
    /\ status = "running"
    /\ pc = "fetch" =>
           /\ domains_combined_orig =
                  FetchedSoFar(call_input, Len(call_input) - sources_left)
           /\ sources_left > 0 => ENABLED FetchListed
           /\ sources_left = 0 => ENABLED ValidateRemote
    /\ pc = "psl" =>
           domains_combined_orig =
               validate_domain_list(FetchedSoFar(call_input, Len(call_input)))

\* C13 witness: a fetch that raised stands between two lists that were
\* fetched; all three entries were visited and both lists are in the set
C13_Witness ==
    /\ pc = "fetch"
    /\ sources_left = 0
    /\ call_input = <<[kind |-> "fetched", domains |-> {D_ec}],
                      [kind |-> "exception", domains |-> {}],
                      [kind |-> "fetched", domains |-> {D_c}]>>
    /\ domains_combined_orig = {D_ec, D_c}

\* C14 as stated: once append_to_local_rule_file has been called for a
\* domain, further calls for it leave the file as the first call left it
C14_Original == append_calls >= 1 => rule_file = call_result

\* the domains of set that have no non-empty proper ancestor in set
WithoutAncestor(set) ==
    {d \in set :
        ~\E a \in set : a # D_empty /\ a # d /\ CoveredBy(d, a)}

\* C15 as stated: prune_redundant_rules raises nothing on any set, and when
\* it returns the set holds exactly the domains of the set it was given
\* that have no non-empty proper ancestor there
C15_Original ==
    /\ status # "failed"
    /\ (pc = "prune_first" /\ prune_todo = {}) =>
           domains_combined = WithoutAncestor(call_input)

\* C20 as stated: when prune_redundant_rules returns, every domain of the
\* set it was given is still in the set or has a non-empty proper ancestor
\* there, and a non-empty set has not become empty
C20_Original ==
    (pc = "prune_first" /\ prune_todo = {}) =>
        /\ \A d \in call_input :
               \/ d \in domains_combined
               \/ \E a \in domains_combined :
                      a # D_empty /\ a # d /\ CoveredBy(d, a)
        /\ call_input # {} => domains_combined # {}

\* C16 as stated: no domain that extract_domain_set_from_hosts_format_bytes
\* returns and validate_domain_list keeps is zero-length
C16_Original ==
    pc = "hosts_parsed" => D_empty \notin validate_domain_list(call_result)

\* C17 as stated: a domain that extract_domain_set_from_dnsgate_format_file
\* returns holds no '#', neither starts nor ends with whitespace, and has
\* no empty label
C17_Original ==
    pc = "dnsgate_parsed" =>
        \A d \in call_result :
            /\ d # << >>
            /\ \A i \in 1..Len(d) : d[i] # Hash
            /\ d[1] \notin Whitespace
            /\ d[Len(d)] \notin Whitespace
            /\ \A i \in 1..Len(Split(d)) : Split(d)[i] # << >>

\* the final list is made: the run is at the emptiness test or beyond it
\* on the way to its output
ListMade == pc = "check_empty" \/ ReachedOutput

\* C18 as stated: no entry of the final list starts or ends with a dot,
\* with or without root reduction
C18_Original ==
    ListMade =>
        \A i \in 1..Len(sorted_output) :
            /\ sorted_output[i] # << >> => sorted_output[i][1] # Dot
            /\ sorted_output[i] # << >> =>
                   sorted_output[i][Len(sorted_output[i])] # Dot

\* the set the re-adding loop starts from (lines 799-813)
PslReduced(orig, whitelist) ==
    IF whitelist # {}
    THEN RemoveWhitelistedPsl(strip_to_psl(orig) \ whitelist, whitelist)
    ELSE strip_to_psl(orig)

RECURSIVE ReAddInOrder(_, _, _)
\* the set the re-adding loop ends with when it visits the domains in the
\* order of the list
ReAddInOrder(order, whitelist, combined) ==
    IF order = << >> THEN combined
    ELSE ReAddInOrder(Tail(order), whitelist,
                      IF ReAdded(Head(order), whitelist, combined)
                      THEN combined \cup {Head(order)}
                      ELSE combined)

\* C19 as stated: the set the re-adding loop ends with does not depend on
\* the order in which the loop visits the original blacklist: it is the
\* set that one fixed order gives
C19_Original ==
    (pc = "readd" /\ readd_todo = {}) =>
        domains_combined =
            ReAddInOrder(Iterate(domains_combined_orig), domains_whitelist,
                         PslReduced(domains_combined_orig, domains_whitelist))

====
